---- MODULE Spec2Model ----
(***************************************************************************)
(* Feed ingestion of deckkit-feeds: the filesystem ingester                *)
(* (src/scripts/ingest-rss.js), its copy that strips branding              *)
(* (src/unnamed/part_000, lines 1-131) and the object-storage ingester     *)
(* (src/unnamed/part_000, lines 133-286).                                  *)
(*                                                                         *)
(* JavaScript values are encoded as follows.  A string is a TLA+ string,   *)
(* except text that the code splits or concatenates character by           *)
(* character (titles, rendered HTML), which is a sequence of one-character *)
(* strings; the characters outside ASCII are written by their code point   *)
(* ("U+2014" is the em dash).  undefined is UNDEF and null is NULL.  An    *)
(* absent title or body is the empty sequence, which is falsy like "".     *)
(***************************************************************************)
EXTENDS Integers, Sequences, FiniteSets, TLC

VARIABLES
  variant,    \* which of the three scripts this process runs
  run,        \* number of invocations started so far
  pc,         \* position of main()
  idx,        \* index of the for loop over sourceFiles
  srcDocs,    \* data/sources/<id>.json, per source
  items,      \* items/<id>/<hash>.json, per source: hash -> document
  feeds,      \* feeds/<id>.json, per source
  response,   \* what the server answered to the GET of the current cycle
  request,    \* the conditional headers of that GET
  result,     \* value of fetchFeed for the current cycle
  feed,       \* feed.items of the current cycle
  j,          \* index of the for loop over feed.items
  manifest,   \* the manifest array of the current cycle
  uploads,    \* promises returned by uploadToR2 and their requests in flight
  exitCode,   \* exit status of the last finished invocation
  attempted,  \* history: sources whose loop body was entered in this run
  err,        \* history: what the catch block of the current cycle caught
  pre,        \* history: the store of the current source when its cycle began
  lastBody,   \* history: per source, the latest full response body
  upOk,       \* history: per source, no upload of its latest cycle has failed
  failures,   \* history: number of uploads that failed so far
  call,       \* a direct call of a pure function: its name and arguments
  ret         \* the value that call returned

vars == <<variant, run, pc, idx, srcDocs, items, feeds, response, request, result,
          feed, j, manifest, uploads, exitCode, attempted, err, pre, lastBody, upOk, failures,
          call, ret>>

----------------------------------------------------------------------------
(* Bounds of the model *)

MaxRuns == 2
MaxFailures == 1
MaxSegments == 3
MaxNodes == 2

----------------------------------------------------------------------------
(* JavaScript values *)

UNDEF == "undefined"
NULL == "null"

Falsy(x) == x \in {UNDEF, NULL, ""}

\* the operands the other way round: b unless it is falsy
OrSecond(a, b) == IF Falsy(b) THEN a ELSE b

\* a || b on strings
Or(a, b) == IF Falsy(a) THEN b ELSE a

\* a || b on character sequences
OrSeq(a, b) == IF a = <<>> THEN b ELSE a

EmDash == "U+2014"

\* the literal " - " with an em dash, as written in ingest-rss.js
DelimEmDash == <<" ", EmDash, " ">>

\* the literal as written in part_000: the UTF-8 bytes of the em dash read as
\* windows-1252 and saved again, three characters instead of one
DelimMojibake == <<" ", "U+00E2", "U+20AC", "U+201D", " ">>

Variants == {"fs", "pages", "r2"}

SourceFiles == <<"s1", "s2">>
Sources == {SourceFiles[i] : i \in 1..Len(SourceFiles)}

----------------------------------------------------------------------------
(* Pure functions *)

\* String.prototype.indexOf(d, from), 1-based; 0 when d does not occur
RECURSIVE IndexOf(_, _, _)
IndexOf(s, d, from) ==
  IF from + Len(d) - 1 > Len(s) THEN 0
  ELSE IF SubSeq(s, from, from + Len(d) - 1) = d THEN from
  ELSE IndexOf(s, d, from + 1)

\* String.prototype.split(d) for a non-empty separator d
RECURSIVE Split(_, _)
Split(s, d) ==
  LET i == IndexOf(s, d, 1)
  IN IF i = 0 THEN <<s>>
     ELSE <<SubSeq(s, 1, i - 1)>> \o Split(SubSeq(s, i + Len(d), Len(s)), d)

\* the for loop of wrapTitle over parts[1..]
RECURSIVE H2s(_, _)
H2s(parts, i) ==
  IF i > Len(parts) THEN <<>>
  ELSE <<"<h2>">> \o parts[i] \o <<"</h2>">> \o H2s(parts, i + 1)

WrapParts(parts, link) ==
  <<"<h1>", "<a href=\"", link, "\" target=\"_blank\">">> \o parts[1]
    \o <<"</a>", "</h1>">> \o H2s(parts, 2)

wrapTitle(title, link) == WrapParts(Split(title, DelimEmDash), link)

wrapTitlePages(title, link) == WrapParts(Split(title, DelimMojibake), link)

wrapTitleR2(title, link) == WrapParts(Split(title, DelimMojibake), link)

\* crypto sha256, hex, first 12 characters: the digests of the identifiers used
getHash(text) ==
  CASE text = "g1" -> "711430f6164e"
    [] text = "g2" -> "4d2f4b668cfc"
    [] text = "http://x/1" -> "705538218a5b"
    [] text = "http://x/3" -> "060227c737be"
    [] text = "" -> "e3b0c44298fc"
    [] text = "/rel" -> "d307fd2dc0f5"

----------------------------------------------------------------------------
(* Feed items as rss-parser returns them *)

NoTitle == <<"N", "o", " ", "T", "i", "t", "l", "e">>

\* Date.parse: NaN for a missing or unparseable date, else milliseconds
DateParse(d) ==
  CASE d = "Thu, 01 Jan 1970 00:00:00 GMT" -> [nan |-> FALSE, ms |-> 0]
    [] d = "Thu, 01 Jan 1970 00:00:01 GMT" -> [nan |-> FALSE, ms |-> 1000]
    [] d = "Wed, 31 Dec 1969 23:59:59 GMT" -> [nan |-> FALSE, ms |-> -1000]
    [] OTHER -> [nan |-> TRUE, ms |-> 0]

\* Date.now(): later in every later run, and after every date a feed carries
DateNow == 2000000 + run

\* new URL(link).hostname; a relative reference makes new URL throw
UrlParse(link) ==
  CASE link = "http://x/1" -> [valid |-> TRUE, hostname |-> "x"]
    [] link = "http://x/3" -> [valid |-> TRUE, hostname |-> "x"]
    [] link = "https://localhost" -> [valid |-> TRUE, hostname |-> "localhost"]
    [] link = "https://news.ycombinator.com/item?id=1"
         -> [valid |-> TRUE, hostname |-> "news.ycombinator.com"]
    [] OTHER -> [valid |-> FALSE, hostname |-> ""]

Text(tag, t) == [tag |-> tag, attrs |-> {}, text |-> t]

ItemA1 ==
  [guid |-> "g1", link |-> "http://x/1",
   title |-> <<"A", " ", EmDash, " ", "B">>,
   pubDate |-> "Thu, 01 Jan 1970 00:00:01 GMT",
   contentEncoded |-> <<>>, content |-> <<Text("p", "one")>>,
   summary |-> <<>>, description |-> <<Text("#text", "short")>>]

\* the entry of ItemA1 after the publisher edited it
ItemA2 ==
  [guid |-> "g1", link |-> "http://x/1",
   title |-> <<"C">>,
   pubDate |-> "Wed, 31 Dec 1969 23:59:59 GMT",
   contentEncoded |-> <<>>, content |-> <<Text("p", "two")>>,
   summary |-> <<>>, description |-> <<>>]

\* an entry without guid, title, date and body
ItemL ==
  [guid |-> UNDEF, link |-> "http://x/3",
   title |-> <<>>, pubDate |-> UNDEF,
   contentEncoded |-> <<>>, content |-> <<>>,
   summary |-> <<>>, description |-> <<>>]

\* an entry with neither guid nor link
ItemBad ==
  [guid |-> UNDEF, link |-> UNDEF,
   title |-> <<"D">>, pubDate |-> UNDEF,
   contentEncoded |-> <<>>, content |-> <<>>,
   summary |-> <<>>, description |-> <<Text("script", "x")>>]

\* an entry whose link is a relative reference
ItemRel ==
  [guid |-> "g2", link |-> "/rel",
   title |-> <<"E">>, pubDate |-> "Thu, 01 Jan 1970 00:00:00 GMT",
   contentEncoded |-> <<>>, content |-> <<>>,
   summary |-> <<>>, description |-> <<>>]

FeedItems == {ItemA1, ItemA2, ItemL, ItemBad, ItemRel}

Feed(f) == [wellFormed |-> TRUE, items |-> f]

\* what the server of a source may send as a response body: feeds, and bytes
\* that are no feed
Bodies(s) ==
  IF s = "s1"
  THEN {Feed(<<>>), Feed(<<ItemA1>>), Feed(<<ItemA1, ItemA2>>),
        Feed(<<ItemA1, ItemL>>), Feed(<<ItemA1, ItemBad>>), Feed(<<ItemRel>>),
        [wellFormed |-> FALSE, items |-> <<>>]}
  ELSE {Feed(<<ItemA1>>), Feed(<<ItemA1, ItemBad>>)}

\* the etag and last-modified headers a server may advertise
Validators(s) ==
  IF s = "s1" THEN {<<NULL, NULL>>, <<"e1", NULL>>}
  ELSE {<<NULL, NULL>>, <<NULL, "m1">>}

NoBody == [wellFormed |-> FALSE, items |-> <<>>]

----------------------------------------------------------------------------
(* Sanitizing and formatting *)

ALLOWED_TAGS ==
  {"h1", "h2", "h3", "h4", "h5", "h6", "p", "ul", "li", "strong", "em", "a",
   "br", "div", "img", "span"}

ALLOWED_ATTRIBUTES(tag) ==
  CASE tag = "a" -> {"href", "rel", "target"}
    [] tag = "img" -> {"loading", "src", "alt", "title"}
    [] tag = "span" -> {"class", "style"}
    [] OTHER -> {}

\* sanitize-html on one element: text stays, an allowed element keeps its
\* allowed attributes, a script or style element goes with its content, any
\* other element leaves its text
SanitizeNode(n) ==
  IF n.tag = "#text" THEN <<n>>
  ELSE IF n.tag \in ALLOWED_TAGS
    THEN <<[n EXCEPT !.attrs = n.attrs \cap ALLOWED_ATTRIBUTES(n.tag)]>>
  ELSE IF n.tag \in {"script", "style", "textarea", "option"} THEN <<>>
  ELSE <<Text("#text", n.text)>>

RECURSIVE sanitizeHtml(_)
sanitizeHtml(html) ==
  IF html = <<>> THEN <<>>
  ELSE SanitizeNode(Head(html)) \o sanitizeHtml(Tail(html))

\* cleanHtml that hands the markup on as it came
cleanHtmlRaw(html) == html

cleanHtml(html) == IF html = <<>> THEN <<>> ELSE sanitizeHtml(html)

\* String.prototype.replace(pat, rep): the first occurrence only
Replace(s, pat, rep) ==
  LET i == IndexOf(s, pat, 1)
  IN IF i = 0 THEN s
     ELSE SubSeq(s, 1, i - 1) \o rep \o SubSeq(s, i + Len(pat), Len(s))

HackerNewsSuffix ==
  <<" ", "|", " ", "H", "a", "c", "k", "e", "r", " ", "N", "e", "w", "s">>

\* The code's prettifyItem returns the item, or throws: threw says which.
Prettified(item, title, sourceHash) ==
  [threw |-> FALSE,
   item |-> [guid |-> item.guid, link |-> item.link, pubDate |-> item.pubDate,
             timestamp |-> item.timestamp,
             description |-> cleanHtml(item.description),
             title |-> title, source |-> sourceHash, category |-> ""]]

prettifyItem(item, sourceHash) ==
  Prettified(item, wrapTitle(OrSeq(item.title, NoTitle), Or(item.link, "#")),
             sourceHash)

prettifyItemPages(item, sourceHash) ==
  LET url == UrlParse(Or(item.link, "https://localhost"))
      stripped ==
        IF url.hostname \in {"news.ycombinator.com", "hnrss.org"}
        THEN Replace(item.title, HackerNewsSuffix, <<>>)
        ELSE item.title
      done == Prettified(item,
                wrapTitlePages(OrSeq(stripped, NoTitle), Or(item.link, "#")),
                sourceHash)
  IN IF url.valid THEN done ELSE [done EXCEPT !.threw = TRUE]

prettifyItemR2(item, sourceHash) ==
  Prettified(item, wrapTitleR2(OrSeq(item.title, NoTitle), Or(item.link, "#")),
             sourceHash)

----------------------------------------------------------------------------
(* The conditional fetch *)

\* the headers object built by fetchFeed
RequestHeaders(etag, lastModified) ==
  [ifNoneMatch |-> IF Falsy(etag) THEN UNDEF ELSE etag,
   ifModifiedSince |-> IF Falsy(lastModified) THEN UNDEF ELSE lastModified]

Conditional(headers) ==
  headers.ifNoneMatch # UNDEF \/ headers.ifModifiedSince # UNDEF

\* What the single GET can meet: no response at all (network error, timeout),
\* or a status line and headers, after which reading the body can still fail.
\* A server answers 304 only to a conditional request.
Responses(s, headers) ==
  {[kind |-> "response", status |-> 200, readable |-> TRUE, body |-> b,
    etag |-> v[1], lastModified |-> v[2]] : b \in Bodies(s), v \in Validators(s)}
    \cup {[kind |-> k, status |-> 0, readable |-> FALSE, body |-> NoBody,
           etag |-> NULL, lastModified |-> NULL] : k \in {"networkError", "timeout"}}
    \cup {[kind |-> "response", status |-> 500, readable |-> TRUE, body |-> NoBody,
           etag |-> NULL, lastModified |-> NULL],
          [kind |-> "response", status |-> 200, readable |-> FALSE, body |-> NoBody,
           etag |-> "e1", lastModified |-> NULL]}
    \cup (IF Conditional(headers)
          THEN {[kind |-> "response", status |-> 304, readable |-> TRUE,
                 body |-> NoBody, etag |-> "e1", lastModified |-> NULL]}
          ELSE {})

NoResponse ==
  [kind |-> "none", status |-> 0, readable |-> FALSE, body |-> NoBody,
   etag |-> NULL, lastModified |-> NULL]

NoRequest == [ifNoneMatch |-> UNDEF, ifModifiedSince |-> UNDEF]

NoResult ==
  [modified |-> FALSE, xml |-> NoBody, etag |-> NULL, lastModified |-> NULL,
   error |-> "", raised |-> FALSE, readBody |-> FALSE]

\* the try block of fetchFeed: the value returned, or threw with the message
FetchTry(resp) ==
  IF resp.kind # "response"
    THEN [threw |-> TRUE, value |-> [NoResult EXCEPT !.error = resp.kind]]
  ELSE IF resp.status = 304
    THEN [threw |-> FALSE, value |-> NoResult]
  ELSE IF ~(resp.status \in 200..299)
    THEN [threw |-> TRUE, value |-> [NoResult EXCEPT !.error = "HTTP"]]
  ELSE IF ~resp.readable
    THEN [threw |-> TRUE,
          value |-> [NoResult EXCEPT !.error = "terminated", !.readBody = TRUE]]
  ELSE [threw |-> FALSE,
        value |-> [modified |-> TRUE, xml |-> resp.body, etag |-> resp.etag,
                   lastModified |-> resp.lastModified, error |-> "",
                   raised |-> FALSE, readBody |-> TRUE]]

\* fetchFeed without the response.ok test: any status but 304 is read as a feed
fetchFeedNoOkCheck(resp) ==
  IF resp.kind = "response" /\ resp.status # 304 /\ resp.readable
  THEN [modified |-> TRUE, xml |-> resp.body, etag |-> resp.etag,
        lastModified |-> resp.lastModified, error |-> "", raised |-> FALSE,
        readBody |-> TRUE]
  ELSE [NoResult EXCEPT !.error = resp.kind]

\* fetchFeed: whatever the try block throws becomes { modified: false, error }
fetchFeed(resp) ==
  LET t == FetchTry(resp)
  IN IF t.threw THEN [t.value EXCEPT !.modified = FALSE, !.raised = FALSE]
     ELSE t.value

----------------------------------------------------------------------------
(* The stores *)

NoFile == [exists |-> FALSE, json |-> <<>>]
File(data) == [exists |-> TRUE, json |-> data]

NoDoc ==
  [guid |-> UNDEF, link |-> UNDEF, pubDate |-> UNDEF, timestamp |-> 0,
   description |-> <<>>, title |-> <<>>, source |-> "", category |-> ""]

EmptyDir == [h \in {} |-> NoDoc]

\* a check that never finds the file
existsSyncNever(dir, h) == FALSE

\* a check that finds every file
existsSyncAlways(dir, h) == TRUE

existsSync(dir, h) == h \in DOMAIN dir

\* fs.writeFileSync, and PutObject: create or replace
WriteFile(dir, h, doc) == (h :> doc) @@ dir

cur == SourceFiles[idx]

InLoop == idx \in 1..Len(SourceFiles)

\* the object literal handed to prettifyItem
NewItem(item, guid) ==
  [guid |-> guid, title |-> item.title, link |-> item.link,
   pubDate |-> item.pubDate,
   description |->
     OrSeq(OrSeq(OrSeq(item.contentEncoded, item.content), item.summary),
           item.description),
   timestamp |->
     LET t == DateParse(item.pubDate)
     IN IF t.nan \/ t.ms = 0 THEN DateNow ELSE t.ms]

\* crypto's update throws a TypeError for a value that is no string
GetHashThrows(text) == text \in {UNDEF, NULL}

\* uploadToR2 without its try/catch
uploadToR2NoCatch(sendOk) == IF sendOk THEN "fulfilled" ELSE "rejected"

\* uploadToR2: the promise it returns, given whether s3.send succeeded
uploadToR2(sendOk) ==
  IF sendOk THEN "fulfilled"
  ELSE "fulfilled"   \* caught and logged

\* an upload whose key names the first source instead of the source of the cycle
UploadFirstSource(s, pos, kind, h, doc, man) ==
  [src |-> SourceFiles[1], by |-> s, pos |-> pos, kind |-> kind, h |-> h,
   doc |-> doc, man |-> man, state |-> "pending"]

\* src and h, or src alone, are the key of the object; by is history: the source
\* whose cycle made the call
Upload(s, pos, kind, h, doc, man) ==
  [src |-> s, by |-> s, pos |-> pos, kind |-> kind, h |-> h, doc |-> doc,
   man |-> man, state |-> "pending"]

\* uploadPromises of the running cycle
Promises == {u \in uploads : pc \in {"items", "join"} /\ u.src = cur}

Snapshot(s) ==
  [items |-> items[s], feed |-> feeds[s], doc |-> srcDocs[s],
   body |-> lastBody[s], upOk |-> upOk[s]]

NoBodySeen == [seen |-> FALSE, body |-> NoBody]

NoSnapshot ==
  [items |-> EmptyDir, feed |-> NoFile, doc |-> [wellFormed |-> FALSE, etag |-> "",
   lastModified |-> ""], body |-> NoBodySeen, upOk |-> TRUE]

----------------------------------------------------------------------------
(* main() *)

NoCall == [fn |-> "", segments |-> <<>>, link |-> ""]

GoodSource == [wellFormed |-> TRUE, etag |-> "", lastModified |-> ""]
BadSource == [wellFormed |-> FALSE, etag |-> "", lastModified |-> ""]

Init ==
  /\ variant \in Variants
  /\ run = 0
  /\ pc = "idle"
  /\ idx = 1
  /\ srcDocs \in [Sources -> {GoodSource, BadSource}]
  /\ items = [s \in Sources |-> EmptyDir]
  /\ feeds = [s \in Sources |-> NoFile]
  /\ response = NoResponse
  /\ request = NoRequest
  /\ result = NoResult
  /\ feed = <<>>
  /\ j = 1
  /\ manifest = <<>>
  /\ uploads = {}
  /\ exitCode = 0
  /\ attempted = <<>>
  /\ err = ""
  /\ pre = NoSnapshot
  /\ lastBody = [s \in Sources |-> NoBodySeen]
  /\ upOk = [s \in Sources |-> TRUE]
  /\ failures = 0
  /\ call = NoCall
  /\ ret = <<>>

\* the scheduler starts the script
Start ==
  /\ pc = "idle"
  /\ run < MaxRuns
  /\ run' = run + 1
  /\ pc' = "loop"
  /\ idx' = 1
  /\ attempted' = <<>>
  /\ exitCode' = -1
  /\ UNCHANGED <<call, ret, variant, srcDocs, items, feeds, response, request, result, feed,
                 j, manifest, uploads, err, pre, lastBody, upOk, failures>>

\* top of the loop body: the source document is read and parsed
ReadSource ==
  /\ pc = "loop"
  /\ InLoop
  /\ srcDocs[cur].wellFormed
  /\ attempted' = Append(attempted, cur)
  /\ pre' = Snapshot(cur)
  /\ err' = ""
  /\ pc' = "fetch"
  /\ UNCHANGED <<call, ret, variant, run, idx, srcDocs, items, feeds, response, request,
                 result, feed, j, manifest, uploads, exitCode, lastBody,
                 upOk, failures>>

\* JSON.parse throws outside the try block: main() rejects, process.exit(1)
\* ends the process and with it the requests still in flight
ReadSourceThrows ==
  /\ pc = "loop"
  /\ InLoop
  /\ ~srcDocs[cur].wellFormed
  /\ attempted' = Append(attempted, cur)
  /\ pc' = "idle"
  /\ exitCode' = 1
  /\ uploads' = {}
  /\ upOk' = [s \in Sources |->
                upOk[s] /\ ~(\E u \in uploads : u.src = s /\ u.state = "pending")]
  /\ UNCHANGED <<call, ret, variant, run, idx, srcDocs, items, feeds, response, request,
                 result, feed, j, manifest, err, pre, lastBody, failures>>

\* await fetchFeed(...)
Fetch ==
  /\ pc = "fetch"
  /\ LET headers == RequestHeaders(srcDocs[cur].etag, srcDocs[cur].lastModified)
     IN /\ request' = headers
        /\ \E resp \in Responses(cur, headers) :
             /\ response' = resp
             /\ result' = fetchFeed(resp)
  /\ err' = IF result'.raised THEN "fetch" ELSE ""
  /\ pc' = IF result'.raised \/ ~result'.modified THEN "end" ELSE "parse"
  /\ lastBody' = IF result'.modified
                 THEN [lastBody EXCEPT ![cur] = [seen |-> TRUE, body |-> result'.xml]]
                 ELSE lastBody
  /\ upOk' = IF result'.modified THEN [upOk EXCEPT ![cur] = TRUE] ELSE upOk
  /\ UNCHANGED <<call, ret, variant, run, idx, srcDocs, items, feeds, feed, j, manifest,
                 uploads, exitCode, attempted, pre, failures>>

\* a manifest that starts from the stored one
NewManifestMerged == feeds[cur].json

\* const manifest = []
NewManifest == <<>>

\* a parse whose failure is swallowed: the cycle goes on with no items
ParseSwallows ==
  /\ pc = "parse"
  /\ feed' = result.xml.items
  /\ pc' = "items"
  /\ err' = ""
  /\ j' = 1
  /\ manifest' = NewManifest
  /\ UNCHANGED <<call, ret, variant, run, idx, srcDocs, items, feeds, response, request,
                 result, uploads, exitCode, attempted, pre, lastBody,
                 upOk, failures>>

\* await parser.parseString(result.xml)
Parse ==
  /\ pc = "parse"
  /\ IF result.xml.wellFormed
     THEN /\ feed' = result.xml.items
          /\ pc' = "items"
          /\ err' = ""
     ELSE /\ feed' = feed
          /\ pc' = "end"
          /\ err' = "parse"
  /\ j' = 1
  /\ manifest' = NewManifest
  /\ UNCHANGED <<call, ret, variant, run, idx, srcDocs, items, feeds, response, request,
                 result, uploads, exitCode, attempted, pre, lastBody,
                 upOk, failures>>

Prettify(item, sourceHash) ==
  IF variant = "pages" THEN prettifyItemPages(item, sourceHash)
  ELSE prettifyItem(item, sourceHash)

\* one round of the loop over feed.items, filesystem scripts
ProcessItemFs ==
  /\ pc = "items"
  /\ variant \in {"fs", "pages"}
  /\ j <= Len(feed)
  /\ LET item == feed[j]
         guid == Or(item.guid, item.link)
     IN IF GetHashThrows(guid)
        THEN /\ pc' = "end"
             /\ err' = "item"
             /\ UNCHANGED <<manifest, items, j>>
        ELSE LET itemHash == getHash(guid)
                 processed == Prettify(NewItem(item, guid), cur)
             IN /\ manifest' = Append(manifest, [g |-> guid, h |-> itemHash])
                /\ IF existsSync(items[cur], itemHash)
                   THEN /\ j' = j + 1
                        /\ UNCHANGED <<pc, err, items>>
                   ELSE IF processed.threw
                   THEN /\ pc' = "end"
                        /\ err' = "item"
                        /\ UNCHANGED <<items, j>>
                   ELSE /\ items' = [items EXCEPT ![cur] =
                                       WriteFile(items[cur], itemHash, processed.item)]
                        /\ j' = j + 1
                        /\ UNCHANGED <<pc, err>>
  /\ UNCHANGED <<call, ret, variant, run, idx, srcDocs, feeds, response, request, result,
                 feed, uploads, exitCode, attempted, pre, lastBody, upOk, failures>>

\* fs.writeFileSync of the manifest
WriteManifestFs ==
  /\ pc = "items"
  /\ variant \in {"fs", "pages"}
  /\ j > Len(feed)
  /\ feeds' = [feeds EXCEPT ![cur] = File(manifest)]
  /\ pc' = "meta"
  /\ UNCHANGED <<call, ret, variant, run, idx, srcDocs, items, response, request, result,
                 feed, j, manifest, uploads, exitCode, attempted, err, pre,
                 lastBody, upOk, failures>>

\* one round of the loop over feed.items, object-storage script
ProcessItemR2 ==
  /\ pc = "items"
  /\ variant = "r2"
  /\ j <= Len(feed)
  /\ LET item == feed[j]
         guid == Or(item.guid, item.link)
     IN IF GetHashThrows(guid)
        THEN /\ pc' = "end"
             /\ err' = "item"
             /\ UNCHANGED <<manifest, uploads, j>>
        ELSE LET itemHash == getHash(guid)
                 processed == prettifyItemR2(NewItem(item, guid), cur)
             IN /\ manifest' = Append(manifest, [g |-> guid, h |-> itemHash])
                /\ IF processed.threw
                   THEN /\ pc' = "end"
                        /\ err' = "item"
                        /\ UNCHANGED <<uploads, j>>
                   ELSE /\ uploads' = uploads \cup
                             {Upload(cur, j, "item", itemHash, processed.item, <<>>)}
                        /\ j' = j + 1
                        /\ UNCHANGED <<pc, err>>
  /\ UNCHANGED <<call, ret, variant, run, idx, srcDocs, items, feeds, response, request,
                 result, feed, exitCode, attempted, pre, lastBody, upOk, failures>>

\* uploadPromises.push(uploadToR2(`feeds/...`, manifest))
DispatchManifest ==
  /\ pc = "items"
  /\ variant = "r2"
  /\ j > Len(feed)
  /\ uploads' = uploads \cup {Upload(cur, j, "manifest", "", NoDoc, manifest)}
  /\ pc' = "join"
  /\ UNCHANGED <<call, ret, variant, run, idx, srcDocs, items, feeds, response, request,
                 result, feed, j, manifest, exitCode, attempted, err, pre,
                 lastBody, upOk, failures>>

\* An s3.send in flight ends, well or not, and its uploadToR2 promise settles.
\* The loop over feed.items holds no await, so a request of the running cycle
\* cannot end before main() reaches the await of Promise.all.
Settle(u) ==
  /\ u \in uploads
  /\ u.state = "pending"
  /\ ~(pc = "items" /\ u.src = cur)
  /\ \E sendOk \in BOOLEAN :
       /\ sendOk \/ failures < MaxFailures
       /\ failures' = IF sendOk THEN failures ELSE failures + 1
       /\ IF sendOk /\ u.kind = "item"
          THEN items' = [items EXCEPT ![u.src] = WriteFile(items[u.src], u.h, u.doc)]
          ELSE items' = items
       /\ IF sendOk /\ u.kind = "manifest"
          THEN feeds' = [feeds EXCEPT ![u.src] = File(u.man)]
          ELSE feeds' = feeds
       /\ upOk' = [upOk EXCEPT ![u.src] = upOk[u.src] /\ sendOk]
       /\ uploads' = IF u \in Promises
                     THEN (uploads \ {u}) \cup {[u EXCEPT !.state = uploadToR2(sendOk)]}
                     ELSE uploads \ {u}
  /\ UNCHANGED <<call, ret, variant, run, pc, idx, srcDocs, response, request, result, feed,
                 j, manifest, exitCode, attempted, err, pre, lastBody>>

\* await Promise.all(uploadPromises)
Join ==
  /\ pc = "join"
  /\ \/ \E u \in Promises : u.state = "rejected"
     \/ \A u \in Promises : u.state = "fulfilled"
  /\ IF \E u \in Promises : u.state = "rejected"
     THEN pc' = "end" /\ err' = "upload"
     ELSE pc' = "meta" /\ err' = err
  /\ UNCHANGED <<call, ret, variant, run, idx, srcDocs, items, feeds, response, request,
                 result, feed, j, manifest, uploads, exitCode, attempted, pre,
                 lastBody, upOk, failures>>

\* an update that keeps a stored validator when the response advertises none
UpdateMetaKeep ==
  /\ pc = "meta"
  /\ srcDocs' = [srcDocs EXCEPT ![cur] =
                   [@ EXCEPT !.etag = Or(result.etag, @),
                             !.lastModified = Or(result.lastModified, @)]]
  /\ pc' = "end"
  /\ UNCHANGED <<call, ret, variant, run, idx, items, feeds, response, request, result, feed,
                 j, manifest, uploads, exitCode, attempted, err, pre, lastBody,
                 upOk, failures>>

\* source.etag = ...; source.lastModified = ...; fs.writeFileSync(sourcePath, ...)
UpdateMeta ==
  /\ pc = "meta"
  /\ srcDocs' = [srcDocs EXCEPT ![cur] =
                   [@ EXCEPT !.etag = Or(result.etag, ""),
                             !.lastModified = Or(result.lastModified, "")]]
  /\ pc' = "end"
  /\ UNCHANGED <<call, ret, variant, run, idx, items, feeds, response, request, result, feed,
                 j, manifest, uploads, exitCode, attempted, err, pre, lastBody,
                 upOk, failures>>

\* the loop moves to the next source file
NextSource ==
  /\ pc = "end"
  /\ idx' = idx + 1
  /\ pc' = "loop"
  /\ response' = NoResponse
  /\ request' = NoRequest
  /\ result' = NoResult
  /\ feed' = <<>>
  /\ j' = 1
  /\ manifest' = <<>>
  /\ err' = ""
  /\ pre' = NoSnapshot
  /\ uploads' = {u \in uploads : u.state = "pending"}
  /\ UNCHANGED <<call, ret, variant, run, srcDocs, items, feeds, exitCode, attempted,
                 lastBody, upOk, failures>>

\* the loop is over: main() returns
LoopDone ==
  /\ pc = "loop"
  /\ ~InLoop
  /\ pc' = "done"
  /\ UNCHANGED <<call, ret, variant, run, idx, srcDocs, items, feeds, response, request,
                 result, feed, j, manifest, uploads, exitCode, attempted, err, pre,
                 lastBody, upOk, failures>>

\* nothing is left in flight: the process ends with status 0
Exit ==
  /\ pc = "done"
  /\ uploads = {}
  /\ pc' = "idle"
  /\ exitCode' = 0
  /\ UNCHANGED <<call, ret, variant, run, idx, srcDocs, items, feeds, response, request,
                 result, feed, j, manifest, uploads, attempted, err, pre, lastBody, upOk, failures>>

Next ==
  \/ Start
  \/ ReadSource
  \/ ReadSourceThrows
  \/ Fetch
  \/ Parse
  \/ ProcessItemFs
  \/ WriteManifestFs
  \/ ProcessItemR2
  \/ DispatchManifest
  \/ \E u \in uploads : Settle(u)
  \/ Join
  \/ UpdateMeta
  \/ NextSource
  \/ LoopDone
  \/ Exit

Spec == Init /\ [][Next]_vars

----------------------------------------------------------------------------
(* Direct calls of wrapTitle, one script at a time *)

mainVars == <<variant, run, pc, idx, srcDocs, items, feeds, response, request,
              result, feed, j, manifest, uploads, exitCode, attempted, err, pre,
              lastBody, upOk, failures>>

\* the parts a title is made of: text, text with a blank, a lone dash, nothing
TitleSegments == {<<"A">>, <<"B", " ", "C">>, <<EmDash>>, <<>>}

TitleLinks == {"http://x", "#"}

SegmentLists == UNION {[1..n -> TitleSegments] : n \in 1..MaxSegments}

\* Array.prototype.join
RECURSIVE JoinSegments(_, _)
JoinSegments(segs, d) ==
  IF Len(segs) = 1 THEN segs[1]
  ELSE segs[1] \o d \o JoinSegments(Tail(segs), d)

\* a feed title: its parts joined by " - " with an em dash
TitleOf(segs) == JoinSegments(segs, DelimEmDash)

InitTitle ==
  /\ Init
  /\ variant = "fs"
  /\ \A s \in Sources : srcDocs[s] = GoodSource

CallWrapTitle ==
  /\ call = NoCall
  /\ \E segs \in SegmentLists, link \in TitleLinks :
       /\ call' = [fn |-> "wrapTitle", segments |-> segs, link |-> link]
       /\ ret' = wrapTitle(TitleOf(segs), link)
  /\ UNCHANGED mainVars

CallWrapTitlePages ==
  /\ call = NoCall
  /\ \E segs \in SegmentLists, link \in TitleLinks :
       /\ call' = [fn |-> "wrapTitlePages", segments |-> segs, link |-> link]
       /\ ret' = wrapTitlePages(TitleOf(segs), link)
  /\ UNCHANGED mainVars

CallWrapTitleR2 ==
  /\ call = NoCall
  /\ \E segs \in SegmentLists, link \in TitleLinks :
       /\ call' = [fn |-> "wrapTitleR2", segments |-> segs, link |-> link]
       /\ ret' = wrapTitleR2(TitleOf(segs), link)
  /\ UNCHANGED mainVars

Return ==
  /\ call # NoCall
  /\ call' = NoCall
  /\ ret' = <<>>
  /\ UNCHANGED mainVars

NextTitle ==
  \/ CallWrapTitle
  \/ CallWrapTitlePages
  \/ CallWrapTitleR2
  \/ Return

SpecTitle == InitTitle /\ [][NextTitle]_vars

----------------------------------------------------------------------------
(* Direct calls of cleanHtml, one script at a time *)

\* the elements an item body is made of: text, allowed elements with allowed
\* and other attributes, elements outside the allow-list
HtmlNodes ==
  {Text("#text", "t"),
   Text("p", "one"),
   [tag |-> "a", attrs |-> {"href", "onclick"}, text |-> "x"],
   [tag |-> "a", attrs |-> {"href", "rel", "target"}, text |-> "y"],
   [tag |-> "span", attrs |-> {"class", "style", "id"}, text |-> "z"],
   [tag |-> "img", attrs |-> {"src", "alt", "onerror"}, text |-> ""],
   [tag |-> "p", attrs |-> {"style"}, text |-> "two"],
   Text("script", "alert(1)"),
   [tag |-> "iframe", attrs |-> {"src"}, text |-> ""],
   Text("b", "bold")}

HtmlInputs == UNION {[1..n -> HtmlNodes] : n \in 0..MaxNodes}

cleanHtmlPages(html) == IF html = <<>> THEN <<>> ELSE sanitizeHtml(html)

cleanHtmlR2(html) == IF html = <<>> THEN <<>> ELSE sanitizeHtml(html)

InitClean ==
  /\ Init
  /\ variant = "fs"
  /\ \A s \in Sources : srcDocs[s] = GoodSource

CallCleanHtml ==
  /\ call = NoCall
  /\ \E html \in HtmlInputs :
       /\ call' = [fn |-> "cleanHtml", html |-> html]
       /\ ret' = cleanHtml(html)
  /\ UNCHANGED mainVars

CallCleanHtmlPages ==
  /\ call = NoCall
  /\ \E html \in HtmlInputs :
       /\ call' = [fn |-> "cleanHtmlPages", html |-> html]
       /\ ret' = cleanHtmlPages(html)
  /\ UNCHANGED mainVars

CallCleanHtmlR2 ==
  /\ call = NoCall
  /\ \E html \in HtmlInputs :
       /\ call' = [fn |-> "cleanHtmlR2", html |-> html]
       /\ ret' = cleanHtmlR2(html)
  /\ UNCHANGED mainVars

NextClean ==
  \/ CallCleanHtml
  \/ CallCleanHtmlPages
  \/ CallCleanHtmlR2
  \/ Return

SpecClean == InitClean /\ [][NextClean]_vars

----------------------------------------------------------------------------
(* Properties *)

Fs == variant \in {"fs", "pages"}

\* the response of the running cycle is a complete success response
Success ==
  /\ response.kind = "response"
  /\ response.status \in 200..299
  /\ response.readable

\* the key under which an entry is stored
KeyOf(item) == getHash(Or(item.guid, item.link))

\* C1: in the filesystem scripts no step changes or removes an item document
\* that exists, whatever the later feeds carry for its identifier.
C1_CreateIfMissing ==
  [][Fs => \A s \in Sources : \A h \in DOMAIN items[s] :
             h \in DOMAIN items'[s] /\ items'[s][h] = items[s][h]]_vars

\* A cycle of a later run has gone past an entry whose identifier has a document
\* from an earlier run, with another publish date, and the document is as it was.
C1_Witness ==
  /\ Fs
  /\ pc = "items"
  /\ run = 2
  /\ \E k \in 1..(j - 1) :
       /\ ~GetHashThrows(Or(feed[k].guid, feed[k].link))
       /\ KeyOf(feed[k]) \in DOMAIN pre.items
       /\ pre.items[KeyOf(feed[k])].pubDate # feed[k].pubDate
       /\ items[cur][KeyOf(feed[k])] = pre.items[KeyOf(feed[k])]

\* C2: in the object-storage script no step changes or removes an item document
\* that is in the bucket.
C2_BucketCreateOnly ==
  [][variant = "r2" => \A s \in Sources : \A h \in DOMAIN items[s] :
                         h \in DOMAIN items'[s] /\ items'[s][h] = items[s][h]]_vars

\* C3: a step changes the stored source document of a source only as the last
\* step of that source's cycle, when the fetch was a complete success response,
\* the feed parsed, every entry was processed and nothing was thrown.
C3_ValidatorsOnlyAfterModified ==
  [][\A s \in Sources :
       srcDocs'[s] # srcDocs[s] =>
         /\ pc = "meta"
         /\ s = cur
         /\ Success
         /\ response.body.wellFormed
         /\ Len(manifest) = Len(response.body.items)
         /\ err = ""]_vars

\* A cycle whose feed did not parse has ended, and the source still holds the
\* etag of an earlier cycle although this response advertised none.
C3_Witness ==
  /\ pc = "end"
  /\ Success
  /\ ~response.body.wellFormed
  /\ err = "parse"
  /\ response.etag = NULL
  /\ srcDocs[cur].etag = "e1"
  /\ srcDocs[cur] = pre.doc

\* one entry per feed item, in feed order
RECURSIVE ExpectedManifest(_)
ExpectedManifest(entries) ==
  IF entries = <<>> THEN <<>>
  ELSE <<[g |-> Or(Head(entries).guid, Head(entries).link),
          h |-> KeyOf(Head(entries))]>> \o ExpectedManifest(Tail(entries))

\* the cycle that has just ended fetched a feed, parsed it and threw nothing
CompletedModified ==
  /\ Success
  /\ response.body.wellFormed
  /\ err = ""

\* C4: when a cycle ends, the stored manifest of its source is the list of
\* entries of the payload if the cycle fetched and processed one, and is the
\* manifest from before the cycle otherwise.
C4_ManifestReplaced ==
  pc = "end" =>
    IF CompletedModified
    THEN feeds[cur] = File(ExpectedManifest(response.body.items))
    ELSE feeds[cur] = pre.feed

\* the upstream feed is as the previous cycle of this source saw it: the server
\* says not modified, or sends the same payload again
UnchangedFeed ==
  /\ pre.body.seen
  /\ \/ response.kind = "response" /\ response.status = 304
     \/ Success /\ response.body = pre.body.body

SameKeysAndManifest ==
  /\ DOMAIN items[cur] = DOMAIN pre.items
  /\ feeds[cur] = pre.feed

C6_EverySourceAttempted ==
  (pc = "idle" /\ run > 0) => (attempted = SourceFiles /\ exitCode = 0)

\* C7: fetchFeed returns for every outcome of the GET; a complete success
\* response gives modified with its body and validators, every other outcome
\* gives not modified, and the body of a 304 is not read.
C7_FetchClassification ==
  response.kind # "none" =>
    /\ ~result.raised
    /\ Success =>
         /\ result.modified
         /\ result.xml = response.body
         /\ result.etag = response.etag
         /\ result.lastModified = response.lastModified
    /\ ~Success => ~result.modified
    /\ (response.kind = "response" /\ response.status = 304) => ~result.readBody

\* A server error was classified as not modified and the cycle ended there.
C7_Witness ==
  /\ pc = "end"
  /\ response.kind = "response"
  /\ response.status = 500
  /\ ~result.modified
  /\ err = ""

\* C8: no upload is in flight when the validators are written, and while a
\* cycle runs only uploads of its own source are in flight.
C8_StrictJoin ==
  \A u \in uploads :
    u.state = "pending" =>
      /\ pc # "meta"
      /\ pc \in {"fetch", "parse", "items", "join"} => u.src = cur

\* C9: in the object-storage script no cycle ends in an error thrown by an
\* upload, and once the loop over the entries is done an upload was dispatched
\* for every entry and for the manifest, whichever of them failed.
C9_UploadsBestEffort ==
  variant = "r2" =>
    /\ err # "upload"
    /\ pc \in {"join", "meta"} =>
         {u.pos : u \in {v \in uploads : v.src = cur}} = 1..(Len(feed) + 1)
    /\ pc = "meta" => \A u \in uploads : u.src = cur => u.state = "fulfilled"

\* The join of a two-entry cycle was passed although an upload of it failed.
C9_Witness ==
  /\ variant = "r2"
  /\ pc = "meta"
  /\ Len(feed) = 2
  /\ ~upOk[cur]
  /\ Cardinality({u \in uploads : u.src = cur /\ u.state = "fulfilled"}) = 3

\* the headings the title format asks for: one h1 around the anchor, then one
\* h2 for each further part
RECURSIVE ExpectedH2(_)
ExpectedH2(segs) ==
  IF segs = <<>> THEN <<>>
  ELSE <<"<h2>">> \o Head(segs) \o <<"</h2>">> \o ExpectedH2(Tail(segs))

ExpectedTitle(segs, link) ==
  <<"<h1>", "<a href=\"", link, "\" target=\"_blank\">">> \o Head(segs)
    \o <<"</a>", "</h1>">> \o ExpectedH2(Tail(segs))

\* C10: each wrapTitle of the repository turns a title of n parts and a link
\* into one h1 around an anchor to the link holding the first part, followed by
\* n-1 h2 holding the other parts in order.
C10_TitleFormat ==
  call.fn \in {"wrapTitle", "wrapTitlePages", "wrapTitleR2"} =>
    ret = ExpectedTitle(call.segments, call.link)

\* the allow-list of tags as the specification gives it
SpecTags ==
  {"h1", "h2", "h3", "h4", "h5", "h6", "p", "ul", "li", "strong", "em", "a",
   "br", "div", "img", "span"}

\* the allow-list of attributes per tag as the specification gives it
SpecAttributes(tag) ==
  IF tag = "a" THEN {"href", "rel", "target"}
  ELSE IF tag = "img" THEN {"loading", "src", "alt", "title"}
  ELSE IF tag = "span" THEN {"class", "style"}
  ELSE {}

IsCleanCall == call # NoCall /\ call.fn \in {"cleanHtml", "cleanHtmlPages", "cleanHtmlR2"}

\* C11: what cleanHtml returns holds only text and elements of the allow-list,
\* each with attributes of its own allow-list only, and is empty for an absent
\* input.
C11_SanitizationClosure ==
  IsCleanCall =>
    /\ \A i \in 1..Len(ret) :
         \/ ret[i].tag = "#text"
         \/ /\ ret[i].tag \in SpecTags
            /\ ret[i].attrs \subseteq SpecAttributes(ret[i].tag)
    /\ call.html = <<>> => ret = <<>>

\* cleanHtml was given a script element and an anchor with an onclick handler,
\* and returned the anchor without the handler and no script element.
C11_Witness ==
  /\ IsCleanCall
  /\ \E i \in 1..Len(call.html) : call.html[i].tag = "script"
  /\ \E i \in 1..Len(call.html) : "onclick" \in call.html[i].attrs
  /\ ret = <<[tag |-> "a", attrs |-> {"href"}, text |-> "x"]>>

\* a header value as the source document keeps it: the empty string for none
Stored(v) == IF v = NULL THEN "" ELSE v

\* the request header that goes with a stored validator: none for the empty one
Sent(v) == IF v = "" THEN UNDEF ELSE v

\* C12: a cycle that fetched a payload and completed leaves in the source
\* document the etag and last-modified of its response, empty for a header the
\* response did not carry; and the request of every cycle carries If-None-Match
\* and If-Modified-Since with the values the source document held when the
\* cycle began, each one exactly when that value is not empty.
C12_ValidatorRoundTrip ==
  /\ (pc = "end" /\ CompletedModified) =>
       /\ srcDocs[cur].etag = Stored(response.etag)
       /\ srcDocs[cur].lastModified = Stored(response.lastModified)
  /\ (pc \in {"parse", "items", "join", "meta", "end"}) =>
       /\ request.ifNoneMatch = Sent(pre.doc.etag)
       /\ request.ifModifiedSince = Sent(pre.doc.lastModified)

\* In a second run a cycle sent the etag an earlier cycle had stored, got a
\* payload without validators and completed: the source holds no etag now.
C12_Witness ==
  /\ run = 2
  /\ pc = "end"
  /\ CompletedModified
  /\ request.ifNoneMatch = "e1"
  /\ request.ifModifiedSince = UNDEF
  /\ response.etag = NULL
  /\ srcDocs[cur].etag = ""

\* the document the running script builds from an entry of the feed
Built(item) ==
  LET obj == NewItem(item, Or(item.guid, item.link))
  IN IF variant = "r2" THEN prettifyItemR2(obj, cur).item
     ELSE Prettify(obj, cur).item

\* entry k is the first entry of the feed with its key, and a later one has it too
FirstOfShared(k) ==
  /\ \A m \in 1..(k - 1) : KeyOf(feed[m]) # KeyOf(feed[k])
  /\ \E l \in (k + 1)..Len(feed) : KeyOf(feed[l]) = KeyOf(feed[k])

\* C13: when a cycle has completed, a key that two entries of its payload share
\* and that had no document before the cycle holds the document built from the
\* first of them; stated here for cycles none of whose writes failed.
C13_FirstWriterWins ==
  (pc = "end" /\ CompletedModified /\ upOk[cur]) =>
    \A k \in 1..Len(feed) :
      (FirstOfShared(k) /\ KeyOf(feed[k]) \notin DOMAIN pre.items) =>
        /\ KeyOf(feed[k]) \in DOMAIN items[cur]
        /\ items[cur][KeyOf(feed[k])] = Built(feed[k])

\* the same for the filesystem scripts alone
C13_FirstWriterWinsFs == Fs => C13_FirstWriterWins

\* C14: a step changes the source document of a source only in that source's
\* own cycle; it changes the manifest or an item document of a source only in
\* that source's own cycle (filesystem scripts) or by completing an upload that
\* the source's own cycle dispatched (object-storage script).
C14_KeyNamespacing ==
  [][\A s \in Sources :
       /\ srcDocs'[s] # srcDocs[s] => (InLoop /\ s = cur /\ pc = "meta")
       /\ (items'[s] # items[s] \/ feeds'[s] # feeds[s]) =>
            IF Fs THEN InLoop /\ s = cur /\ pc = "items"
            ELSE \E u \in uploads :
                   u.state = "pending" /\ u \notin uploads' /\ u.by = s]_vars

\* The cycle of the second source has stored an item whose identifier, and so
\* whose key, an item of the first source has too; both documents are there,
\* each naming its own source.
C14_Witness ==
  /\ pc = "end"
  /\ idx = 2
  /\ "711430f6164e" \notin DOMAIN pre.items
  /\ "711430f6164e" \in DOMAIN items["s1"]
  /\ "711430f6164e" \in DOMAIN items["s2"]
  /\ items["s1"]["711430f6164e"].source = "s1"
  /\ items["s2"]["711430f6164e"].source = "s2"
  /\ items["s1"]["711430f6164e"].guid = items["s2"]["711430f6164e"].guid

\* the identifier of a feed item: its guid when it has one, else its link
Identifier(item) == IF item.guid \in {UNDEF, NULL, ""} THEN item.link ELSE item.guid

\* every manifest a cycle has written, to the store or to an upload request
WrittenManifests ==
  {feeds[s].json : s \in {x \in Sources : feeds[x].exists}}
    \cup {u.man : u \in {v \in uploads : v.kind = "manifest"}}

\* the entries of all of them
WrittenEntries == UNION {{m[k] : k \in 1..Len(m)} : m \in WrittenManifests}

\* C15: the manifest a cycle builds has, entry by entry, the identifier of the
\* feed item (guid, else link) and the hash of that identifier; the manifest a
\* cycle writes is the one it built; and in all manifests written, of all runs
\* and sources, entries with equal identifiers have equal keys.
C15_ManifestEntries ==
  /\ (InLoop /\ pc \in {"items", "join", "meta", "end"}) =>
       /\ Len(manifest) <= Len(feed)
       /\ \A k \in 1..Len(manifest) :
            /\ manifest[k].g = Identifier(feed[k])
            /\ manifest[k].h = getHash(Identifier(feed[k]))
  /\ (Fs /\ pc = "meta") => feeds[cur] = File(manifest)
  /\ \A u \in Promises : u.kind = "manifest" => u.man = manifest
  /\ \A e \in WrittenEntries :
       /\ ~Falsy(e.g)
       /\ e.h = getHash(e.g)
       /\ \A f \in WrittenEntries : e.g = f.g => e.h = f.h

\* A cycle of a second run has written a manifest with an entry named by its
\* guid and an entry that has no guid and is named by its link, while the other
\* source has a manifest with the same guid under the same key.
C15_Witness ==
  /\ run = 2
  /\ pc = "end"
  /\ feed = <<ItemA1, ItemL>>
  /\ feeds[cur] = File(<<[g |-> "g1", h |-> "711430f6164e"],
                         [g |-> "http://x/3", h |-> "060227c737be"]>>)
  /\ \E s \in Sources \ {cur} :
       feeds[s] = File(<<[g |-> "g1", h |-> "711430f6164e"]>>)

\* C16: every stored item document whose publish date parses has the parsed
\* milliseconds as its timestamp, whatever their value.
C16_Timestamp ==
  \A s \in Sources : \A h \in DOMAIN items[s] :
    LET doc == items[s][h]
        t == DateParse(doc.pubDate)
    IN ~t.nan => doc.timestamp = t.ms

\* the same for the dates that do not parse to 0
C16_TimestampNonZero ==
  \A s \in Sources : \A h \in DOMAIN items[s] :
    LET doc == items[s][h]
        t == DateParse(doc.pubDate)
    IN (~t.nan /\ t.ms # 0) => doc.timestamp = t.ms

\* C17: in the object-storage script, when a cycle has stored the validators of
\* its response, the bucket holds the manifest of that response's payload and a
\* document for every entry of it.
C17_PublishedBeforeValidators ==
  (variant = "r2" /\ pc = "end" /\ CompletedModified /\ srcDocs[cur] # pre.doc) =>
    /\ feeds[cur].exists
    /\ feeds[cur].json = ExpectedManifest(feed)
    /\ \A k \in 1..Len(feed) : KeyOf(feed[k]) \in DOMAIN items[cur]

\* the same for the cycles none of whose uploads failed
C17_PublishedWhenNoUploadFailed ==
  (InLoop /\ upOk[cur]) => C17_PublishedBeforeValidators

\* C18: in the filesystem scripts, at every moment, every entry of every stored
\* manifest has its item document in the directory of its source.
C18_ManifestIntegrity ==
  Fs => \A s \in Sources :
          feeds[s].exists =>
            \A k \in 1..Len(feeds[s].json) : feeds[s].json[k].h \in DOMAIN items[s]

\* A cycle is between two of its writes: it has written an item document that
\* the stored manifest, written by an earlier cycle, does not list yet.
C18_Witness ==
  /\ Fs
  /\ pc = "items"
  /\ j <= Len(feed)
  /\ feeds[cur].exists
  /\ Len(feeds[cur].json) >= 1
  /\ \E h \in DOMAIN items[cur] :
       /\ h \notin DOMAIN pre.items
       /\ \A k \in 1..Len(feeds[cur].json) : feeds[cur].json[k].h # h

\* the cycle of the current source has ended in an error thrown by the parser
\* or while an entry was processed
EndedInError == pc = "end" /\ err \in {"parse", "item"}

\* C19: a cycle that ended in such an error has left the item documents, the
\* manifest and the source document of its source as they were when it began,
\* and no upload it dispatched exists.
C19_AllOrNothing ==
  EndedInError =>
    /\ items[cur] = pre.items
    /\ feeds[cur] = pre.feed
    /\ srcDocs[cur] = pre.doc
    /\ \A u \in uploads : u.by # cur

\* the part about the manifest and the source document alone
C19_ManifestAndValidatorsKept ==
  EndedInError => (feeds[cur] = pre.feed /\ srcDocs[cur] = pre.doc)

====
